---------------------------- MODULE Spec2Model ----------------------------
(***************************************************************************)
(* A model of pypomes_ldap/ldap_pomes.py: the connect / bind / act /       *)
(* unbind bracket of the directory operations, the attribute               *)
(* reconciliation of ldap_modify_user and ldap_set_value, and the trace    *)
(* file owned by the client object.                                        *)
(*                                                                         *)
(* One caller invokes one public operation at a time (Spec); in            *)
(* SpecTwoCalls it makes a second call right after the first, and in       *)
(* SpecConcurrent a second caller runs ldap_set_value at the same time.    *)
(* Every call of the python-ldap library is one step whose outcome (normal *)
(* return or an exception) is chosen by the environment.  Python values    *)
(* are encoded so that values of one variable stay comparable:             *)
(*   bytes / str     a string ("" is the empty byte string)                *)
(*   None            the string None, which is no bytes value              *)
(*   list[bytes]     a sequence; a missing list is NoneList                *)
(*   dict            a function whose DOMAIN is the set of keys            *)
(*   search result   a sequence of <<dn, dict>>; a missing one NoneData    *)
(***************************************************************************)
EXTENDS Integers, Sequences, FiniteSets, TLC

\* ------------------------------------------------------------------ bounds
\* longest list of (attribute, value) pairs handed to ldap_modify_user
MaxAttrs == 2

\* ------------------------------------------------------------ Python data
None == "None"
NoneList == <<None>>
EmptyDict == [a \in {} |-> <<>>]
NoneData == << <<None, EmptyDict>> >>

\* the byte strings: the empty one and a non-empty one
Values == {"", "x"}
OptValues == Values \cup {None}

AttrNames == {"mail", "sn"}

\* truth value of a bytes | None object ("if new_value:")
Truthy(v) == v # None /\ v # ""
\* truth value of a list | None object ("elif entry_list:")
ListTruthy(l) == l # NoneList /\ Len(l) > 0
\* dict.get(key)
Get(d, k) == IF k \in DOMAIN d THEN d[k] ELSE NoneList

\* sequences over S of length 0..n
SeqUpTo(S, n) == UNION {[1..k -> S] : k \in 0..n}
\* the elements of a sequence
Range(s) == {s[i] : i \in DOMAIN s}
\* non-empty duplicate-free value lists (an attribute holds a set of values)
ValLists == {l \in SeqUpTo(Values, Cardinality(Values)) :
               Len(l) > 0 /\ \A i, j \in DOMAIN l : i # j => l[i] # l[j]}
Dicts == UNION {[S -> ValLists] : S \in SUBSET AttrNames}

\* ------------------------------------------------------- library constants
MOD_ADD == "MOD_ADD"
MOD_DELETE == "MOD_DELETE"
MOD_REPLACE == "MOD_REPLACE"
SCOPE_BASE == "SCOPE_BASE"
SCOPE_ONELEVEL == "SCOPE_ONELEVEL"
SCOPE_SUBTREE == "SCOPE_SUBTREE"
AnyObject == "(objectClass=*)"

\* the directory tree: one container and at most one user entry below it
UsersDN == "cn=users,base"
EntryDN == "cn=u1,cn=users,base"
UserFilter == "cn=u1"

\* ------------------------------------------------------- the directory store
\* the user entry: whether it exists, and its attributes
Stores == {[exists |-> FALSE, attrs |-> EmptyDict]}
            \cup {[exists |-> TRUE, attrs |-> d] : d \in Dicts}

\* a dict with one key set
DictSet(d, k, v) == [a \in DOMAIN d \cup {k} |-> IF a = k THEN v ELSE d[a]]
\* a dict with one key removed
DictDel(d, k) == [a \in DOMAIN d \ {k} |-> d[a]]
\* a list without one value
ListDel(l, v) == SelectSeq(l, LAMBDA e : e # v)

\* what the server answers to a modification it rejects
Rejected == [a \in {None} |-> NoneList]

\* one modification <<mode, attribute, value>> applied by the server
ApplyMod(d, m) ==
    LET mode == m[1]
        a == m[2]
        v == m[3]
    IN  IF d = Rejected THEN Rejected
        ELSE IF mode = MOD_ADD THEN
            IF v = None THEN Rejected
            ELSE IF a \notin DOMAIN d THEN DictSet(d, a, <<v>>)
            ELSE IF v \in Range(d[a]) THEN Rejected
            ELSE DictSet(d, a, Append(d[a], v))
        ELSE IF mode = MOD_REPLACE THEN
            IF v = None THEN DictDel(d, a) ELSE DictSet(d, a, <<v>>)
        ELSE \* MOD_DELETE
            IF a \notin DOMAIN d THEN Rejected
            ELSE IF v = None THEN DictDel(d, a)
            ELSE IF v \notin Range(d[a]) THEN Rejected
            ELSE IF Len(d[a]) = 1 THEN DictDel(d, a)
            ELSE DictSet(d, a, ListDel(d[a], v))

\* a modification list applied in order, all or nothing
RECURSIVE ApplyMods(_, _)
ApplyMods(d, mods) ==
    IF mods = <<>> THEN d ELSE ApplyMods(ApplyMod(d, Head(mods)), Tail(mods))

\* the entries a search visits and those its filter keeps
InScope(dn, base, scope) ==
    \/ scope = SCOPE_BASE /\ dn = base
    \/ scope = SCOPE_ONELEVEL /\ dn = EntryDN /\ base = UsersDN
    \/ scope = SCOPE_SUBTREE /\ (dn = base \/ (dn = EntryDN /\ base = UsersDN))
Matches(dn, filter) == filter = AnyObject \/ (filter = UserFilter /\ dn = EntryDN)

\* the attributes a search returns for an entry
Project(d, attrlist, attrsonly) ==
    [a \in DOMAIN d \cap attrlist |-> IF attrsonly THEN <<>> ELSE d[a]]

\* search_s on the store: NoneData stands for the NO_SUCH_OBJECT failure
SearchStore(st, base, scope, filter, attrlist, attrsonly) ==
    IF base = EntryDN /\ ~st.exists THEN NoneData
    ELSE (IF InScope(UsersDN, base, scope) /\ Matches(UsersDN, filter)
             THEN << <<UsersDN, EmptyDict>> >> ELSE <<>>)
         \o
         (IF st.exists /\ InScope(EntryDN, base, scope) /\ Matches(EntryDN, filter)
             THEN << <<EntryDN, Project(st.attrs, attrlist, attrsonly)>> >>
             ELSE <<>>)

\* ---------------------------------------------- attribute reconciliation
\* mutant of BuildModEntries: the new value is written without being
\* compared with the current one
RECURSIVE BuildModEntries_m(_, _)
BuildModEntries_m(attrs, user_data) ==
    IF attrs = <<>> THEN <<>>
    ELSE LET attr_name == Head(attrs)[1]
             new_value == Head(attrs)[2]
             entry_list == Get(user_data, attr_name)
             this == IF Truthy(new_value)
                     THEN << <<IF entry_list = NoneList THEN MOD_ADD
                               ELSE MOD_REPLACE, attr_name, new_value>> >>
                     ELSE IF ListTruthy(entry_list)
                          THEN << <<MOD_DELETE, attr_name, None>> >>
                          ELSE <<>>
         IN  this \o BuildModEntries_m(Tail(attrs), user_data)

\* the modification list of ldap_modify_user, pair by pair
RECURSIVE BuildModEntries(_, _)
BuildModEntries(attrs, user_data) ==
    IF attrs = <<>> THEN <<>>
    ELSE LET attr_name == Head(attrs)[1]
             new_value == Head(attrs)[2]
             entry_list == Get(user_data, attr_name)
             curr_value == IF entry_list = NoneList THEN None ELSE entry_list[1]
             this == IF Truthy(new_value)
                     THEN IF new_value # curr_value
                          THEN << <<IF curr_value = None THEN MOD_ADD
                                    ELSE MOD_REPLACE, attr_name, new_value>> >>
                          ELSE <<>>
                     ELSE IF ListTruthy(entry_list)
                          THEN << <<MOD_DELETE, attr_name, None>> >>
                          ELSE <<>>
         IN  this \o BuildModEntries(Tail(attrs), user_data)

\* entry_list[0] on an empty list raises IndexError
ReadFirstRaises(attrs, user_data) ==
    \E i \in DOMAIN attrs :
        Truthy(attrs[i][2]) /\ Get(user_data, attrs[i][1]) = <<>>

\* mutant of SetValueMode: a value that differs from the stored one is
\* left alone
SetValueMode_m(curr_value, value) ==
    IF curr_value = None
    THEN (IF value # None THEN MOD_ADD ELSE None)
    ELSE IF value = None THEN MOD_DELETE
    ELSE None
\* the modification mode of ldap_set_value (None: nothing to do)
SetValueMode(curr_value, value) ==
    IF curr_value = None
    THEN (IF value # None THEN MOD_ADD ELSE None)
    ELSE IF value = None THEN MOD_DELETE
    ELSE IF curr_value # value THEN MOD_REPLACE
    ELSE None

\* the result of ldap_get_value_list from the search result
GetValueList(search_data, attr) ==
    IF search_data # NoneData /\ Len(search_data) > 0
    THEN Get(search_data[1][2], attr)
    ELSE NoneList

\* mutant of GetValue: the last value of the list, not the first
GetValue_m(data) ==
    IF data # NoneList /\ Len(data) > 0 THEN data[Len(data)] ELSE None
\* the result of ldap_get_value from that of ldap_get_value_list
GetValue(data) == IF data # NoneList /\ Len(data) > 0 THEN data[1] ELSE None

\* a dict that is no dict: addModlist(None) raises AttributeError
NoneDict == [a \in {None} |-> NoneList]
\* ldap.modlist.addModlist: the (attribute, values) pairs of the entry
addModlist(attrs) == {<<k, attrs[k]>> : k \in DOMAIN attrs}
\* the entry the server stores for an add-modlist
EntryOf(modlist) == [k \in {p[1] : p \in modlist} |->
                        (CHOOSE p \in modlist : p[1] = k)[2]]

\* ------------------------------------------------------------ configuration
\* the environments the module is loaded in: <<server URI, trace file path>>
Configs == {<<"ldap://host", "sys.stdout">>, <<"ldaps://host", "sys.stderr">>,
            <<"ldap://host", "/tmp/app_ldap.log">>}
LDAP_BIND_DN == "cn=admin,base"

\* mutant of is_secure: every LDAP URI counts as protected
is_secure_m(uri) == TRUE
\* __is_secure: conn._uri.startswith("ldaps:")
is_secure(uri) == uri = "ldaps://host"

\* the name of the trace device ldap_init hands to ldap.initialize
TraceName(trace_filepath) ==
    IF trace_filepath \in {"sys.stdout", None} THEN "<stdout>"
    ELSE IF trace_filepath = "sys.stderr" THEN "<stderr>"
    ELSE trace_filepath
\* ldap_unbind closes the device unless it is stdout or stderr
IsPrivate(name) == name \notin {"<stdout>", "<stderr>"}

\* ------------------------------------------------------------------- state
VARIABLES
    LDAP_SERVER_URI,      \* module constant read from the environment
    LDAP_TRACE_FILEPATH,  \* module constant read from the environment
    store,                \* the directory server's user entry
    op,                   \* the public operation the caller is in ("idle": none)
    args,                 \* its arguments
    errors,               \* the caller-supplied list of error messages
    failures,             \* steps that failed during this call
    pc,                   \* position in the operation
    frame,                \* the directory operation executing ("none": none)
    fargs,                \* its arguments
    ldap_client,          \* its client object, None when ldap_init gave none
    session,              \* the client's connection: none, open, bound, closed
    bound,                \* its local flag
    bind_who,             \* the DN its bind was attempted with
    trace_out,            \* the trace device ldap_init took: its name, or "none"
    trace_closes,         \* number of close() calls that closed that device
    steps,                \* the steps it executed, in order
    used,                 \* the session state its directory action ran on
    request,              \* the request its directory action submitted
    search_data,          \* result of the last ldap_search
    value_list,           \* result of ldap_get_value_list
    result,               \* result of ldap_change_pwd / ldap_get_value
    mod_entries,          \* modification list built by the composite operation
    writes,               \* directory writes submitted during this call
    sessions,             \* directory operations started during this call
    nth,                  \* 1, or 2 in the second of two calls in a row
    other                 \* a second caller of ldap_set_value, when there is one

vars == <<LDAP_SERVER_URI, LDAP_TRACE_FILEPATH, store, op, args, errors, failures, pc,
          frame, fargs, ldap_client, session, bound, bind_who, trace_out,
          trace_closes, steps, used, request, search_data, value_list, result,
          mod_entries, writes, sessions, nth, other>>
config == <<LDAP_SERVER_URI, LDAP_TRACE_FILEPATH>>
scenario == <<nth, other>>
locals == <<ldap_client, session, bound, bind_who, trace_out, trace_closes,
            steps, used, request>>
outputs == <<search_data, value_list, result, mod_entries>>

DirOps == {"ldap_add_entry", "ldap_modify_entry", "ldap_delete_entry",
           "ldap_search", "ldap_change_pwd"}

\* ---------------------------------------------------------------- inputs
\* the error list the caller hands over: empty, or holding earlier messages
PriorErrors == {<<>>, <<"prior">>}
\* (attribute, new value) pairs of ldap_modify_user
Pairs == {<<a, v>> : a \in AttrNames, v \in OptValues}
\* modifications a caller of ldap_modify_entry submits
Mods == {<<m, a, v>> : m \in {MOD_ADD, MOD_DELETE, MOD_REPLACE},
                       a \in {"mail"}, v \in OptValues}
\* attribute sets a caller of ldap_add_entry submits
AddAttrs == {NoneDict} \cup {d \in Dicts : \A k \in DOMAIN d : Len(d[k]) = 1}
\* the scope and the filter handed to ldap_search: none, or one of these
Scopes == {None, SCOPE_BASE, SCOPE_ONELEVEL, SCOPE_SUBTREE}
Filters == {None, "", UserFilter}
Passwords == {"secret"}
\* the current password handed to ldap_change_pwd: none, empty, non-empty
CurrentPasswords == {None, "", "old"}

NoArgs == [attrs |-> <<>>, add_attrs |-> EmptyDict, attr |-> None,
           value |-> None, new_pwd |-> None, curr_pwd |-> None]
NoFargs == [mod_entry |-> <<>>, base_dn |-> None, attrlist |-> {},
            scope |-> None, filter_str |-> None, attrs_only |-> FALSE]
\* the second caller: where it is in ldap_set_value, its arguments and the
\* current value it read
NoOther == [pc |-> "idle", attr |-> None, value |-> None, curr_value |-> None]
\* a request to the server: the library call and the arguments it carries
NoRequest == [call |-> "none", scope |-> None, filterstr |-> None,
              modlist |-> <<>>, newpw |-> None]

Init ==
    /\ \E c \in Configs : LDAP_SERVER_URI = c[1] /\ LDAP_TRACE_FILEPATH = c[2]
    /\ store \in Stores
    /\ op = "idle"
    /\ args = NoArgs
    /\ errors = <<>>
    /\ failures = 0
    /\ pc = "idle"
    /\ frame = "none"
    /\ fargs = NoFargs
    /\ ldap_client = None
    /\ session = "none"
    /\ bound = FALSE
    /\ bind_who = None
    /\ trace_out = "none"
    /\ trace_closes = 0
    /\ steps = <<>>
    /\ used = "unused"
    /\ request = NoRequest
    /\ search_data = NoneData
    /\ value_list = NoneList
    /\ result = None
    /\ mod_entries = <<>>
    /\ writes = 0
    /\ sessions = 0
    /\ nth = 1
    /\ other = NoOther

\* a directory operation is entered: its locals as the code initialises them
Enter(name, fa) ==
    /\ frame' = name
    /\ fargs' = fa
    /\ pc' = "init"
    /\ ldap_client' = None
    /\ session' = "none"
    /\ bound' = FALSE
    /\ bind_who' = None
    /\ trace_out' = "none"
    /\ trace_closes' = 0
    /\ steps' = <<>>
    /\ used' = "unused"
    /\ request' = NoRequest
    /\ sessions' = sessions + 1

\* the caller invokes a public operation
Invoke(name, a, errs) ==
    /\ pc = "idle"
    /\ op' = name
    /\ args' = a
    /\ errors' = errs
    /\ failures' = 0
    /\ UNCHANGED <<config, scenario, store, outputs, writes>>

\* ------------------------------------------------------ the caller's calls
Call_add_entry ==
    \E a \in AddAttrs, e \in PriorErrors :
        /\ Invoke("ldap_add_entry", [NoArgs EXCEPT !.add_attrs = a], e)
        /\ Enter("ldap_add_entry", NoFargs)

Call_modify_entry ==
    \E m \in Mods, e \in PriorErrors :
        /\ Invoke("ldap_modify_entry", NoArgs, e)
        /\ Enter("ldap_modify_entry", [NoFargs EXCEPT !.mod_entry = <<m>>])

Call_delete_entry ==
    \E e \in PriorErrors :
        /\ Invoke("ldap_delete_entry", NoArgs, e)
        /\ Enter("ldap_delete_entry", NoFargs)

Call_search ==
    \E b \in {UsersDN, EntryDN}, sc \in Scopes, f \in Filters,
       ao \in BOOLEAN, e \in PriorErrors :
        /\ Invoke("ldap_search", NoArgs, e)
        /\ Enter("ldap_search",
                 [NoFargs EXCEPT !.base_dn = b, !.attrlist = AttrNames,
                                 !.scope = sc, !.filter_str = f,
                                 !.attrs_only = ao])

Call_change_pwd ==
    \E np \in Passwords, cp \in CurrentPasswords, e \in PriorErrors :
        /\ Invoke("ldap_change_pwd",
                  [NoArgs EXCEPT !.new_pwd = np, !.curr_pwd = cp], e)
        /\ Enter("ldap_change_pwd", NoFargs)

\* lines 231-235: the arguments of the search ldap_modify_user starts with
UserSearchArgs(at) ==
    [NoFargs EXCEPT !.base_dn = UsersDN,
                    !.attrlist = {at[i][1] : i \in DOMAIN at},
                    !.scope = SCOPE_ONELEVEL,
                    !.filter_str = UserFilter]

Call_modify_user ==
    \E at \in SeqUpTo(Pairs, MaxAttrs), e \in PriorErrors :
        /\ Invoke("ldap_modify_user", [NoArgs EXCEPT !.attrs = at], e)
        /\ Enter("ldap_search", UserSearchArgs(at))

\* lines 470-472: the arguments of ldap_get_value_list's search
ValueSearchArgs(a) == [NoFargs EXCEPT !.base_dn = EntryDN, !.attrlist = {a}]
\* ldap_get_value_list's search, which ldap_get_value and ldap_set_value reach
ValueSearch(a) == Enter("ldap_search", ValueSearchArgs(a))

Call_set_value ==
    \E a \in AttrNames, v \in OptValues, e \in PriorErrors :
        /\ Invoke("ldap_set_value", [NoArgs EXCEPT !.attr = a, !.value = v], e)
        /\ ValueSearch(a)

Call_get_value ==
    \E a \in AttrNames, e \in PriorErrors :
        /\ Invoke("ldap_get_value", [NoArgs EXCEPT !.attr = a], e)
        /\ ValueSearch(a)

Call_get_value_list ==
    \E a \in AttrNames, e \in PriorErrors :
        /\ Invoke("ldap_get_value_list", [NoArgs EXCEPT !.attr = a], e)
        /\ ValueSearch(a)

\* ------------------------------------------- the steps of a directory operation
\* what can happen inside ldap_init: the trace file cannot be opened,
\* ldap.initialize raises, a set_option raises, or all succeed
InitOutcomes == {"ok", "open_fails", "initialize_fails", "set_option_fails"}
\* the value ldap_init returns: assigned by ldap.initialize, kept when a
\* later set_option raises
InitClient(outcome) ==
    IF outcome \in {"ok", "set_option_fails"} THEN "client" ELSE None

LdapInit ==
    /\ pc = "init"
    /\ \E outcome \in InitOutcomes :
        /\ outcome = "open_fails" => IsPrivate(TraceName(LDAP_TRACE_FILEPATH))
        /\ ldap_client' = InitClient(outcome)
        /\ session' = IF InitClient(outcome) # None THEN "open" ELSE "none"
        /\ trace_out' = IF outcome = "open_fails" THEN "none"
                        ELSE TraceName(LDAP_TRACE_FILEPATH)
        /\ errors' = IF outcome = "ok" THEN errors ELSE Append(errors, "init")
        /\ failures' = IF outcome = "ok" THEN failures ELSE failures + 1
    /\ steps' = Append(steps, "init")
    /\ pc' = "bind"
    /\ UNCHANGED <<config, scenario, store, op, args, frame, fargs, bound, bind_who,
                   trace_closes, used, request, outputs, writes, sessions>>

\* mutant of HasClient: the bind is attempted whatever ldap_init returned
HasClient_m == TRUE
\* "if ldap_client:" was the LDAP client object obtained ?
HasClient == ldap_client # None
\* mutant of NoErrors: the action depends on the client, not on the errors
NoErrors_m == HasClient
\* mutant of NoErrors: only the failures of this call count
NoErrors_own == failures = 0
\* "if not errors:"
NoErrors == errors = <<>>
\* mutant of IsBound: the unbind depends on the client, not on the bind
IsBound_m == HasClient
\* "if bound:"
IsBound == bound

\* a library call on the client: on an object that is None it raises
ActOutcomes == IF ldap_client = None THEN {"fails"} ELSE {"ok", "fails"}

\* the credentials of the bind: ldap_change_pwd binds as the user when it
\* was given the current password
BindDn ==
    IF frame = "ldap_change_pwd" /\ Truthy(args.curr_pwd)
    THEN EntryDN ELSE LDAP_BIND_DN

LdapBind ==
    /\ pc = "bind"
    /\ HasClient
    /\ \E outcome \in ActOutcomes :
        /\ bound' = (outcome = "ok")
        /\ session' = IF outcome = "ok" THEN "bound" ELSE session
        /\ errors' = IF outcome = "ok" THEN errors ELSE Append(errors, "bind")
        /\ failures' = IF outcome = "ok" THEN failures ELSE failures + 1
    /\ bind_who' = BindDn
    /\ steps' = Append(steps, "bind")
    /\ pc' = "act"
    /\ UNCHANGED <<config, scenario, store, op, args, frame, fargs, ldap_client,
                   trace_out, trace_closes, used, request, outputs, writes, sessions>>

SkipBind ==
    /\ pc = "bind"
    /\ ~HasClient
    /\ pc' = "act"
    /\ UNCHANGED <<config, scenario, store, op, args, errors, failures, frame, fargs, locals,
                   outputs, writes, sessions>>

\* the part every directory action shares
Acted(msg, failed, req) ==
    /\ used' = session
    /\ request' = req
    /\ steps' = Append(steps, "action")
    /\ errors' = IF failed THEN Append(errors, msg) ELSE errors
    /\ failures' = IF failed THEN failures + 1 ELSE failures
    /\ pc' = "unbind"
    /\ UNCHANGED <<config, scenario, op, args, frame, fargs, ldap_client, session, bound,
                   bind_who, trace_out, trace_closes, value_list, mod_entries,
                   sessions>>

\* line 142: addModlist is called outside the try block
AddModlistRaises ==
    /\ pc = "act" /\ frame = "ldap_add_entry"
    /\ NoErrors
    /\ args.add_attrs = NoneDict
    /\ pc' = "raised"
    /\ UNCHANGED <<config, scenario, store, op, args, errors, failures, frame, fargs, locals,
                   outputs, writes, sessions>>

Act_add ==
    /\ pc = "act" /\ frame = "ldap_add_entry"
    /\ NoErrors
    /\ args.add_attrs # NoneDict
    /\ \E outcome \in ActOutcomes :
        LET ok == outcome = "ok" /\ ~store.exists
        IN  /\ store' = IF ok THEN [exists |-> TRUE,
                                    attrs |-> EntryOf(addModlist(args.add_attrs))]
                        ELSE store
            /\ Acted("add", ~ok, [NoRequest EXCEPT !.call = "add_s"])
    /\ writes' = writes + 1
    /\ UNCHANGED <<search_data, result>>

Act_modify ==
    /\ pc = "act" /\ frame = "ldap_modify_entry"
    /\ NoErrors
    /\ \E outcome \in ActOutcomes :
        LET after == ApplyMods(store.attrs, fargs.mod_entry)
            ok == outcome = "ok" /\ store.exists /\ after # Rejected
        IN  /\ store' = IF ok THEN [store EXCEPT !.attrs = after] ELSE store
            /\ Acted("modify", ~ok, [NoRequest EXCEPT !.call = "modify_s",
                                                      !.modlist = fargs.mod_entry])
    /\ writes' = writes + 1
    /\ UNCHANGED <<search_data, result>>

Act_delete ==
    /\ pc = "act" /\ frame = "ldap_delete_entry"
    /\ NoErrors
    /\ \E outcome \in ActOutcomes :
        LET ok == outcome = "ok" /\ store.exists
        IN  /\ store' = IF ok THEN [exists |-> FALSE, attrs |-> EmptyDict]
                        ELSE store
            /\ Acted("delete", ~ok, [NoRequest EXCEPT !.call = "delete_s"])
    /\ writes' = writes + 1
    /\ UNCHANGED <<search_data, result>>

\* truth value of a scope or filter argument: None, the empty string and
\* the number 0, which is ldap.SCOPE_BASE, are false
Falsy(v) == v \in {None, "", SCOPE_BASE}
\* mutant of OrElse: only a missing argument is replaced by the default
OrElse_m(v, default) == IF v = None THEN default ELSE v
\* lines 365-369: "scope or ldap.SCOPE_BASE", "filter_str or ..."
OrElse(v, default) == IF Falsy(v) THEN default ELSE v

Act_search ==
    /\ pc = "act" /\ frame = "ldap_search"
    /\ NoErrors
    /\ \E outcome \in ActOutcomes :
        LET rows == SearchStore(store, fargs.base_dn,
                                OrElse(fargs.scope, SCOPE_BASE),
                                OrElse(fargs.filter_str, AnyObject),
                                fargs.attrlist, fargs.attrs_only)
            ok == outcome = "ok" /\ rows # NoneData
        IN  /\ search_data' = IF ok THEN rows ELSE search_data
            /\ Acted("search", ~ok,
                     [NoRequest EXCEPT !.call = "search_s",
                          !.scope = OrElse(fargs.scope, SCOPE_BASE),
                          !.filterstr = OrElse(fargs.filter_str, AnyObject)])
    /\ UNCHANGED <<store, result, writes>>

\* lines 306-321: passwd_s and the decoding of its response, or modify_s
Act_change_pwd ==
    /\ pc = "act" /\ frame = "ldap_change_pwd"
    /\ NoErrors
    /\ IF is_secure(LDAP_SERVER_URI)
       THEN \E outcome \in ActOutcomes \cup {"no_response_value"} :
              \E resp \in {args.new_pwd, "generated"} :
                LET ok == outcome = "ok" /\ store.exists
                IN  /\ result' = IF ok THEN resp ELSE result
                    /\ Acted("passwd", ~ok,
                             [NoRequest EXCEPT !.call = "passwd_s",
                                               !.newpw = args.new_pwd])
       ELSE \E outcome \in ActOutcomes :
                LET ok == outcome = "ok" /\ store.exists
                IN  /\ result' = IF ok THEN args.new_pwd ELSE result
                    /\ Acted("passwd", ~ok,
                             [NoRequest EXCEPT !.call = "modify_s",
                                  !.modlist = << <<MOD_REPLACE, "userpassword",
                                                   args.new_pwd>> >>])
    /\ writes' = writes + 1
    /\ UNCHANGED <<store, search_data>>

SkipAction ==
    /\ pc = "act"
    /\ ~NoErrors
    /\ pc' = "unbind"
    /\ UNCHANGED <<config, scenario, store, op, args, errors, failures, frame, fargs, locals,
                   outputs, writes, sessions>>

\* what can happen inside ldap_unbind: unbind_s raises (the device is then
\* not closed), the close raises, or all succeed
UnbindOutcomes == {"ok", "unbind_s_fails", "close_fails"}

LdapUnbind ==
    /\ pc = "unbind"
    /\ IsBound
    /\ \E outcome \in UnbindOutcomes :
        /\ outcome = "close_fails" => IsPrivate(trace_out)
        /\ trace_closes' = IF outcome = "ok" /\ IsPrivate(trace_out)
                           THEN trace_closes + 1 ELSE trace_closes
        /\ errors' = IF outcome = "ok" THEN errors ELSE Append(errors, "unbind")
        /\ failures' = IF outcome = "ok" THEN failures ELSE failures + 1
    /\ session' = "closed"
    /\ steps' = Append(steps, "unbind")
    /\ pc' = "ret"
    /\ UNCHANGED <<config, scenario, store, op, args, frame, fargs, ldap_client, bound,
                   bind_who, trace_out, used, request, outputs, writes, sessions>>

SkipUnbind ==
    /\ pc = "unbind"
    /\ ~IsBound
    /\ pc' = "ret"
    /\ UNCHANGED <<config, scenario, store, op, args, errors, failures, frame, fargs, locals,
                   outputs, writes, sessions>>

\* -------------------------------------------- after a directory operation
\* a directory operation called by the caller returns to it
ReturnDirOp ==
    /\ pc = "ret"
    /\ op \in DirOps
    /\ pc' = "done"
    /\ UNCHANGED <<config, scenario, store, op, args, errors, failures, frame, fargs, locals,
                   outputs, writes, sessions>>

\* mutant of NotFound: only a missing result counts, an empty one does not
NotFound_m(data) == data = NoneData
\* line 237: "if not search_data:" the result is None or empty
NotFound(data) == data = NoneData \/ Len(data) = 0

\* lines 236-268 of ldap_modify_user, up to the call of ldap_modify_entry
ModifyUserReconcile ==
    /\ pc = "ret"
    /\ op = "ldap_modify_user" /\ frame = "ldap_search"
    /\ LET errs == IF NotFound(search_data)
                   THEN Append(errors, "notfound") ELSE errors
       IN  /\ errors' = errs
           /\ IF errs # <<>>
              THEN /\ pc' = "done"
                   /\ UNCHANGED <<frame, fargs, locals, mod_entries, sessions>>
              ELSE IF search_data = NoneData \/ Len(search_data) = 0
                      \/ ReadFirstRaises(args.attrs, search_data[1][2])
              THEN \* line 244 or 251: an uncaught TypeError / IndexError
                   /\ pc' = "raised"
                   /\ UNCHANGED <<frame, fargs, locals, mod_entries, sessions>>
              ELSE LET mods == BuildModEntries(args.attrs, search_data[1][2])
                   IN  /\ mod_entries' = mods
                       /\ IF Len(mods) > 0
                          THEN Enter("ldap_modify_entry",
                                     [NoFargs EXCEPT !.mod_entry = mods])
                          ELSE /\ pc' = "done"
                               /\ UNCHANGED <<frame, fargs, locals, sessions>>
    /\ UNCHANGED <<config, scenario, store, op, args, failures, search_data, value_list,
                   result, writes>>

\* lines 429-451 of ldap_set_value, after ldap_get_value returned
SetValueDecide ==
    /\ pc = "ret"
    /\ op = "ldap_set_value" /\ frame = "ldap_search"
    /\ LET data == GetValueList(search_data, args.attr)
           curr_value == GetValue(data)
           mode == SetValueMode(curr_value, args.value)
       IN  /\ value_list' = data
           /\ result' = curr_value
           /\ IF NoErrors /\ mode # None
              THEN /\ mod_entries' = << <<mode, args.attr, args.value>> >>
                   /\ Enter("ldap_modify_entry",
                            [NoFargs EXCEPT !.mod_entry =
                                 << <<mode, args.attr, args.value>> >>])
              ELSE /\ pc' = "done"
                   /\ UNCHANGED <<frame, fargs, locals, mod_entries, sessions>>
    /\ UNCHANGED <<config, scenario, store, op, args, errors, failures, search_data, writes>>

\* ldap_modify_entry returns to the composite operation, which returns
CompositeEnd ==
    /\ pc = "ret"
    /\ op \in {"ldap_modify_user", "ldap_set_value"}
    /\ frame = "ldap_modify_entry"
    /\ pc' = "done"
    /\ UNCHANGED <<config, scenario, store, op, args, errors, failures, frame, fargs, locals,
                   outputs, writes, sessions>>

\* lines 472-478 and 394: the values read from the search result
GetValueReturn ==
    /\ pc = "ret"
    /\ op \in {"ldap_get_value", "ldap_get_value_list"}
    /\ value_list' = GetValueList(search_data, args.attr)
    /\ result' = IF op = "ldap_get_value"
                 THEN GetValue(GetValueList(search_data, args.attr))
                 ELSE result
    /\ pc' = "done"
    /\ UNCHANGED <<config, scenario, store, op, args, errors, failures, frame, fargs, locals,
                   search_data, mod_entries, writes, sessions>>

\* the caller takes the result (or the exception) and is free to call again
Return ==
    /\ pc \in {"done", "raised"}
    /\ op' = "idle"
    /\ args' = NoArgs
    /\ errors' = <<>>
    /\ failures' = 0
    /\ pc' = "idle"
    /\ frame' = "none"
    /\ fargs' = NoFargs
    /\ ldap_client' = None
    /\ session' = "none"
    /\ bound' = FALSE
    /\ bind_who' = None
    /\ trace_out' = "none"
    /\ trace_closes' = 0
    /\ steps' = <<>>
    /\ used' = "unused"
    /\ request' = NoRequest
    /\ search_data' = NoneData
    /\ value_list' = NoneList
    /\ result' = None
    /\ mod_entries' = <<>>
    /\ writes' = 0
    /\ sessions' = 0
    /\ nth' = 1
    /\ UNCHANGED <<config, store, other>>

Next ==
    \/ Call_add_entry
    \/ Call_modify_entry
    \/ Call_delete_entry
    \/ Call_search
    \/ Call_change_pwd
    \/ Call_modify_user
    \/ Call_set_value
    \/ Call_get_value
    \/ Call_get_value_list
    \/ LdapInit
    \/ LdapBind
    \/ SkipBind
    \/ AddModlistRaises
    \/ Act_add
    \/ Act_modify
    \/ Act_delete
    \/ Act_search
    \/ Act_change_pwd
    \/ SkipAction
    \/ LdapUnbind
    \/ SkipUnbind
    \/ ReturnDirOp
    \/ ModifyUserReconcile
    \/ SetValueDecide
    \/ CompositeEnd
    \/ GetValueReturn
    \/ Return

Spec == Init /\ [][Next]_vars

\* ------------------------------------------------- two calls in a row
\* the caller, whose call returned with its error list still empty, makes
\* a second call at once: it keeps its arguments and starts afresh
CallAgain(name, fa) ==
    /\ pc = "done"
    /\ nth = 1
    /\ errors = <<>>
    /\ nth' = 2
    /\ op' = name
    /\ failures' = 0
    /\ frame' = "ldap_search"
    /\ fargs' = fa
    /\ pc' = "init"
    /\ ldap_client' = None
    /\ session' = "none"
    /\ bound' = FALSE
    /\ bind_who' = None
    /\ trace_out' = "none"
    /\ trace_closes' = 0
    /\ steps' = <<>>
    /\ used' = "unused"
    /\ request' = NoRequest
    /\ search_data' = NoneData
    /\ value_list' = NoneList
    /\ result' = None
    /\ mod_entries' = <<>>
    /\ writes' = 0
    /\ sessions' = 1
    /\ UNCHANGED <<config, store, args, errors, other>>

\* ldap_get_value(entry_dn, attr) after ldap_set_value(entry_dn, attr, value)
Then_get_value ==
    /\ op = "ldap_set_value"
    /\ CallAgain("ldap_get_value", ValueSearchArgs(args.attr))

\* ldap_modify_user(user_id, attrs) a second time with the same arguments
Again_modify_user ==
    /\ op = "ldap_modify_user"
    /\ CallAgain("ldap_modify_user", UserSearchArgs(args.attrs))

NextTwoCalls ==
    \/ Call_set_value
    \/ Call_modify_user
    \/ LdapInit
    \/ LdapBind
    \/ SkipBind
    \/ Act_modify
    \/ Act_search
    \/ SkipAction
    \/ LdapUnbind
    \/ SkipUnbind
    \/ ModifyUserReconcile
    \/ SetValueDecide
    \/ CompositeEnd
    \/ GetValueReturn
    \/ Then_get_value
    \/ Again_modify_user
    \/ Return

SpecTwoCalls == Init /\ [][NextTwoCalls]_vars

\* ------------------------------------------------- two concurrent callers
\* everything that belongs to the first caller's call
caller == <<op, args, errors, failures, pc, frame, fargs, locals, outputs,
            writes, sessions, nth>>

\* a second caller, with a connection of its own, enters ldap_set_value
Other_call ==
    /\ other.pc = "idle"
    /\ \E a \in AttrNames, v \in OptValues :
           other' = [NoOther EXCEPT !.pc = "read", !.attr = a, !.value = v]
    /\ UNCHANGED <<config, store, caller>>

\* lines 429-446 in the second caller: it reads the current value; a
\* search that fails, or a value that needs no change, ends its call
Other_read ==
    /\ other.pc = "read"
    /\ LET rows == SearchStore(store, EntryDN, SCOPE_BASE, AnyObject,
                               {other.attr}, FALSE)
           curr_value == GetValue(GetValueList(rows, other.attr))
       IN  other' = IF rows = NoneData
                       \/ SetValueMode(curr_value, other.value) = None
                    THEN NoOther
                    ELSE [other EXCEPT !.pc = "write",
                                       !.curr_value = curr_value]
    /\ UNCHANGED <<config, store, caller>>

\* lines 446-451 in the second caller: its modification reaches the server
Other_write ==
    /\ other.pc = "write"
    /\ LET mode == SetValueMode(other.curr_value, other.value)
           after == ApplyMods(store.attrs, << <<mode, other.attr, other.value>> >>)
       IN  store' = IF store.exists /\ after # Rejected
                    THEN [store EXCEPT !.attrs = after] ELSE store
    /\ other' = NoOther
    /\ UNCHANGED <<config, caller>>

NextConcurrent ==
    \/ Call_set_value
    \/ LdapInit
    \/ LdapBind
    \/ SkipBind
    \/ Act_modify
    \/ Act_search
    \/ SkipAction
    \/ LdapUnbind
    \/ SkipUnbind
    \/ SetValueDecide
    \/ CompositeEnd
    \/ Return
    \/ Other_call
    \/ Other_read
    \/ Other_write

SpecConcurrent == Init /\ [][NextConcurrent]_vars

\* ================================================================ claims
\* the steps a directory operation has executed
Did(step) == step \in Range(steps)
Count(step) == Cardinality({i \in DOMAIN steps : steps[i] = step})
\* the directory operation in progress has been left by a normal return
Returned == pc \in {"ret", "done"} /\ frame # "none"

\* C1: in every directory operation in which ldap_bind succeeded,
\* ldap_unbind has been invoked exactly once when the operation is left,
\* whether it returns or an exception leaves it.
C1_UnbindOnEveryExit ==
    (pc \in {"ret", "done", "raised"} /\ frame # "none" /\ bound)
        => Count("unbind") = 1

C3_ActionOnlyOnBoundSession ==
    Did("action") =>
        /\ used = "bound"
        /\ ldap_client # None
        /\ bound
        /\ \A i, j \in DOMAIN steps :
              (steps[i] = "unbind" /\ steps[j] = "action") => j < i

\* C3 witness: a directory action has run on a bound session and the
\* session was unbound afterwards.
C3_Witness ==
    Did("action") /\ used = "bound" /\ session = "closed"

\* C4: once an error has been recorded in an operation, no later step but
\* the unbind executes: no bind after an error of ldap_init, no directory
\* action after an error of init or bind, no modify of a composite operation
\* after a search error; and the unbind executes if the bind succeeded.
C4_StepsSkippedAfterError ==
    /\ Did("bind") => "init" \notin Range(errors)
    /\ Did("action") => ("init" \notin Range(errors) /\
                          "bind" \notin Range(errors))
    /\ (op \in {"ldap_modify_user", "ldap_set_value"}
           /\ frame = "ldap_modify_entry") => "search" \notin Range(errors)
    /\ (Returned /\ bound) => Did("unbind")

\* C5: no public operation is left by an exception.
C5_NoOperationRaises == pc # "raised"

\* the modification list C6 describes: a value is present when it is not
\* None, the empty byte string included
RECURSIVE RefModEntries(_, _)
RefModEntries(attrs, user_data) ==
    IF attrs = <<>> THEN <<>>
    ELSE LET name == Head(attrs)[1]
             new == Head(attrs)[2]
             has == name \in DOMAIN user_data
             this == IF new # None
                     THEN IF ~has THEN << <<MOD_ADD, name, new>> >>
                          ELSE IF user_data[name][1] # new
                          THEN << <<MOD_REPLACE, name, new>> >>
                          ELSE <<>>
                     ELSE IF has THEN << <<MOD_DELETE, name, None>> >>
                          ELSE <<>>
         IN  this \o RefModEntries(Tail(attrs), user_data)

\* ldap_modify_user has built its modification list
ModListBuilt ==
    /\ op = "ldap_modify_user"
    /\ \/ frame = "ldap_modify_entry"
       \/ frame = "ldap_search" /\ pc = "done" /\ errors = <<>>

\* C6: the modification list ldap_modify_user builds equals the reference,
\* pair by pair and in input order.
C6_ModListEqualsReference ==
    ModListBuilt => mod_entries = RefModEntries(args.attrs, search_data[1][2])

\* every desired value equals the current first value of its attribute, and
\* every absent desired value belongs to an attribute without a value
DesiredEqualsCurrent(attrs, user_data) ==
    \A i \in DOMAIN attrs :
        IF attrs[i][2] = None THEN attrs[i][1] \notin DOMAIN user_data
        ELSE /\ attrs[i][1] \in DOMAIN user_data
             /\ user_data[attrs[i][1]][1] = attrs[i][2]

\* C7: a call of ldap_modify_user submits at most one directory write, and
\* none when the desired values equal the current ones.
C7_AtMostOneWriteNoneIfEqual ==
    (op = "ldap_modify_user" /\ pc = "done") =>
        /\ writes <= 1
        /\ (search_data # NoneData /\ Len(search_data) > 0
              /\ DesiredEqualsCurrent(args.attrs, search_data[1][2]))
             => writes = 0

\* the search of ldap_modify_user is over and gave no entry
UserSearchGaveNothing ==
    /\ op = "ldap_modify_user"
    /\ pc \in {"done", "raised"} \/ frame = "ldap_modify_entry"
    /\ search_data = NoneData \/ Len(search_data) = 0

\* C8: when the user search of ldap_modify_user yields no entry (an empty
\* result, or none because the search failed or was skipped), the "not
\* found" message is recorded, no write is submitted and no second session
\* is opened.
C8_NotFoundNoWrite ==
    UserSearchGaveNothing =>
        /\ fargs.base_dn = UsersDN /\ fargs.scope = SCOPE_ONELEVEL
        /\ fargs.filter_str = UserFilter
        /\ "notfound" \in Range(errors)
        /\ pc = "done"
        /\ writes = 0
        /\ sessions = 1

\* C8 witness: the search succeeded with an empty result and the operation
\* returned.
C8_Witness ==
    UserSearchGaveNothing /\ search_data = <<>> /\ Did("action") /\ pc = "done"

\* C9: a private trace file opened by ldap_init has been closed exactly once
\* when the directory operation returns; stdout and stderr are never closed.
C9_TraceFileClosedOnce ==
    /\ (Returned /\ trace_out # "none" /\ IsPrivate(trace_out))
          => trace_closes = 1
    /\ ~IsPrivate(trace_out) => trace_closes = 0

\* the place of a step in the order init, bind, action, unbind
Rank(step) ==
    CASE step = "init" -> 1 [] step = "bind" -> 2
      [] step = "action" -> 3 [] step = "unbind" -> 4

\* C10: the steps of a directory operation occur in the order init, bind,
\* action, unbind, each at most once; when ldap_init yields no client the
\* operation goes on to its end with the error recorded and with no bind,
\* action or unbind.
C10_StepOrder ==
    /\ \A i, j \in DOMAIN steps : i < j => Rank(steps[i]) < Rank(steps[j])
    /\ (pc \notin {"idle", "init"}) => (Len(steps) > 0 /\ steps[1] = "init")
    /\ (Did("init") /\ ldap_client = None) =>
          /\ steps = <<"init">>
          /\ "init" \in Range(errors)
          /\ pc \in {"bind", "act", "unbind", "ret", "done"}

\* C10 witness: an operation whose ldap_init gave no client has returned
\* after the init step alone.
C10_Witness ==
    Returned /\ ldap_client = None /\ steps = <<"init">>

\* the messages this call appended to the caller's list
Appended == Len(errors) - Cardinality({i \in DOMAIN errors : errors[i] = "prior"})

\* C11: every failure is reported exactly once: when a step (init, bind,
\* action, unbind) of a public operation failed, the call has appended as
\* many messages as steps failed, and no step of a directory operation is
\* executed twice.
C11_EachFailureReportedOnce ==
    /\ failures > 0 => Appended = failures
    /\ \A step \in {"init", "bind", "action", "unbind"} : Count(step) <= 1

\* the single REPLACE of the password attribute with the supplied password
PwdReplace ==
    [NoRequest EXCEPT !.call = "modify_s",
                      !.modlist = << <<MOD_REPLACE, "userpassword", args.new_pwd>> >>]

\* C12: when ldap_change_pwd returns, then (a) if its action ran and did not
\* fail, over an ldaps: URI the password-change extension was submitted and
\* the value returned is the password decoded from the response, otherwise
\* one REPLACE of the password attribute with the supplied password was
\* submitted and the supplied password is returned; (b) if the action was
\* skipped or failed, the value returned is None.
C12_ChangePwdResult ==
    (Returned /\ frame = "ldap_change_pwd") =>
        IF Did("action") /\ "passwd" \notin Range(errors)
        THEN IF LDAP_SERVER_URI = "ldaps://host"
             THEN /\ request.call = "passwd_s"
                  /\ request.newpw = args.new_pwd
                  /\ result \in {args.new_pwd, "generated"}
             ELSE /\ request = PwdReplace
                  /\ writes = 1
                  /\ result = args.new_pwd
        ELSE result = None

\* the password returned over ldaps: is the server's, not the supplied one
C12_Witness ==
    /\ Returned /\ frame = "ldap_change_pwd"
    /\ LDAP_SERVER_URI = "ldaps://host"
    /\ Did("action") /\ errors = <<>>
    /\ result = "generated" /\ result # args.new_pwd

\* C13: in ldap_change_pwd the bind is made as the target user whenever a
\* current password was supplied and with the default credentials only
\* when none was supplied, and when the operation returns exactly one bind
\* attempt has been made.
C13_BindsAsUserIffPwdSupplied ==
    frame = "ldap_change_pwd" =>
        /\ Did("bind") =>
              bind_who = (IF args.curr_pwd # None THEN EntryDN ELSE LDAP_BIND_DN)
        /\ Returned => Count("bind") = 1

\* the client object of the directory operation still holds a connection
HandleHeld == session \in {"open", "bound"}

\* C14: a public operation that has returned, or was left by an
\* exception, holds no connection any more: the handle its directory
\* operation acquired has been released.
C14_NoHandleAfterReturn ==
    pc \in {"done", "raised"} => ~HandleHeld

\* C14, the composite operations: ldap_modify_entry is entered only after
\* the handle of the preceding search has been released.
C14_SessionsInSequence ==
    [][(frame # "none" /\ frame' # frame /\ frame' # "none") => ~HandleHeld]_vars

\* C15 as stated: the search request carries the base scope when no scope
\* was supplied and the filter (objectClass=*) when no filter was
\* supplied, and carries a supplied scope or filter unchanged.
C15_SuppliedSubmittedUnchanged ==
    (frame = "ldap_search" /\ Did("action")) =>
        /\ request.call = "search_s"
        /\ request.scope = (IF fargs.scope = None THEN SCOPE_BASE
                            ELSE fargs.scope)
        /\ request.filterstr = (IF fargs.filter_str = None THEN AnyObject
                                ELSE fargs.filter_str)

\* C15 amended: as above, except that a supplied filter that is the empty
\* string is replaced by (objectClass=*) as a missing one is.
C15_SearchDefaults ==
    (frame = "ldap_search" /\ Did("action")) =>
        /\ request.call = "search_s"
        /\ request.scope = (IF fargs.scope = None THEN SCOPE_BASE
                            ELSE fargs.scope)
        /\ request.filterstr = (IF fargs.filter_str \in {None, ""} THEN AnyObject
                                ELSE fargs.filter_str)

\* a search submitted with both defaults, and one with both supplied
C15_Witness ==
    /\ op = "ldap_search" /\ frame = "ldap_search" /\ Did("action")
    /\ \/ /\ fargs.scope = None /\ fargs.filter_str = None
          /\ request.scope = SCOPE_BASE /\ request.filterstr = AnyObject
       \/ /\ fargs.scope = SCOPE_SUBTREE /\ fargs.filter_str = UserFilter
          /\ request.scope = SCOPE_SUBTREE /\ request.filterstr = UserFilter

\* the values the server holds for the attribute asked for, in its order
StoredList ==
    IF store.exists /\ args.attr \in DOMAIN store.attrs
    THEN store.attrs[args.attr] ELSE NoneList

\* C16: when ldap_get_value_list or ldap_get_value returns after a search
\* that succeeded, the value list is the list of all values the server
\* holds for the attribute, in the server's order, and ldap_get_value
\* returns the first element of that list, or None when the list is
\* missing or empty.
C16_ListAllValueFirst ==
    (pc = "done" /\ op \in {"ldap_get_value", "ldap_get_value_list"}) =>
        /\ (Did("action") /\ "search" \notin Range(errors)) =>
               value_list = StoredList
        /\ op = "ldap_get_value" =>
               result = (IF value_list = NoneList \/ value_list = <<>>
                         THEN None ELSE value_list[1])

\* ldap_get_value has returned the first of two stored values
C16_Witness ==
    /\ pc = "done" /\ op = "ldap_get_value" /\ errors = <<>>
    /\ Len(StoredList) = 2 /\ value_list = StoredList
    /\ result = StoredList[1] /\ result # StoredList[2]

\* the caller handed over a list that already held a message
PriorGiven == errors # <<>> /\ Head(errors) = "prior"
\* the messages the directory actions append when they fail
ActionMessages == {"add", "modify", "delete", "search", "passwd"}

\* C17: in a directory operation called with an error list that already
\* holds a message, the action is never executed, no request is
\* submitted and no message of the action is appended, while init, the
\* bind on the client obtained and the unbind of the bound session are
\* still performed; and no step of a call made with such a list changes
\* the directory store.
C17_PriorErrorsSkipAction ==
    /\ [](PriorGiven /\ frame # "none" =>
            /\ ~Did("action") /\ writes = 0 /\ request = NoRequest
            /\ Range(errors) \cap ActionMessages = {}
            /\ Returned => /\ Did("init")
                           /\ ldap_client # None => Did("bind")
                           /\ bound => Did("unbind"))
    /\ [][PriorGiven => store' = store]_vars

\* a mutating operation has returned after init, bind and unbind, without
\* its action, on a store it could have changed
C17_Witness ==
    /\ PriorGiven /\ Returned
    /\ op = "ldap_modify_entry" /\ store.exists
    /\ ApplyMods(store.attrs, fargs.mod_entry) \notin {Rejected, store.attrs}
    /\ steps = <<"init", "bind", "unbind">>
    /\ errors = <<"prior">>

\* C18: when ldap_get_value(entry_dn, attr), called right after a call
\* ldap_set_value(entry_dn, attr, value) that returned with the error list
\* still empty, returns without an error of its own, it returns value
\* (None when value is None), whatever the attribute held before.
C18_SetThenGet ==
    (nth = 2 /\ op = "ldap_get_value" /\ pc = "done" /\ errors = <<>>) =>
        result = args.value

\* the second call has returned the value the first call set
C18_Witness ==
    /\ nth = 2 /\ op = "ldap_get_value" /\ pc = "done" /\ errors = <<>>
    /\ args.value = "x" /\ result = "x"
    /\ StoredList = <<"x">>

\* the attribute names of the pairs are pairwise distinct
DistinctNames(attrs) ==
    \A i, j \in DOMAIN attrs : i # j => attrs[i][1] # attrs[j][1]

\* C19: in a call of ldap_modify_user made right after a call with the
\* same arguments, of pairwise distinct attribute names, that returned
\* without error, the modification list stays empty, no second directory
\* operation is started and no write is submitted.
C19_SecondModifyUserWritesNothing ==
    (nth = 2 /\ op = "ldap_modify_user" /\ DistinctNames(args.attrs)) =>
        /\ mod_entries = <<>>
        /\ writes = 0
        /\ frame = "ldap_search"
        /\ pc # "raised"

\* the second call has returned after a search that found the user
C19_Witness ==
    /\ nth = 2 /\ op = "ldap_modify_user" /\ pc = "done" /\ errors = <<>>
    /\ args.attrs = << <<"mail", "x">>, <<"sn", None>> >>
    /\ Len(search_data) = 1
    /\ store.attrs = [a \in {"mail"} |-> <<"x">>]
    /\ mod_entries = <<>> /\ writes = 0

\* the step in which ldap_set_value's modification is submitted
SetValueWrites ==
    /\ op = "ldap_set_value" /\ frame = "ldap_modify_entry"
    /\ pc = "act" /\ writes' = writes + 1
\* the step in which ldap_set_value decides that there is nothing to write
SetValueSkips ==
    /\ op = "ldap_set_value" /\ frame = "ldap_search"
    /\ pc = "ret" /\ pc' = "done" /\ errors = <<>>

\* C20: with a second caller of ldap_set_value at work on the same entry,
\* the modification a caller submits fits the store as it is when the
\* modification is submitted (ADD only on an attribute without a value,
\* REPLACE and DELETE only on one with a value), and a caller skips its
\* write only when the stored value is the desired one.
C20_WriteFitsStore ==
    [][/\ SetValueWrites =>
            LET mode == fargs.mod_entry[1][1]
            IN  /\ mode = MOD_ADD => StoredList = NoneList
                /\ mode \in {MOD_REPLACE, MOD_DELETE} => StoredList # NoneList
       /\ SetValueSkips => GetValue(StoredList) = args.value]_vars

=============================================================================
